---- MODULE Spec2Model ----
(***************************************************************************)
(* A state-machine model of the CG14 frame buffer device of                *)
(* src/hw/sparc/cg14.c: the control-register handlers, the video-memory    *)
(* handlers, the ADV7152 DAC, the refresh callback and the host surface    *)
(* the refresh callback talks to.                                          *)
(*                                                                         *)
(* Conventions.                                                            *)
(*  - A handler's addr is the offset inside its region: every handler      *)
(*    masks addr before use and both region bases are multiples of the     *)
(*    region size, so the base bits never reach a decision.                *)
(*  - The 256-entry tables and the video memory are kept as functions on   *)
(*    the set of indices holding a non-zero value; an index outside the    *)
(*    domain holds 0 (the device state is allocated zeroed).               *)
(*  - TLC's integers are 32-bit signed: the sampled 32-bit words are kept  *)
(*    below 2^31, and on that range a store to a uint32_t is the identity. *)
(*  - Of the host framebuffer the model keeps the first FbPixels words.    *)
(***************************************************************************)
EXTENDS Integers, Sequences, FiniteSets, TLC

VARIABLES
    vram,          \* uint8_t *vram: the video memory bytes
    width, height, \* int width, height
    dirty,         \* int dirty
    size_changed,  \* int size_changed
    ctrl,          \* struct { mcr, ppr }
    dac,           \* struct ADV7152_state
    timing,        \* struct { hblank_start, hblank_clear, vblank_start, vblank_clear }
    xlut,          \* uint8_t xlut[256]
    clut1,         \* uint32_t clut1[256]
    clut2,         \* uint32_t clut2[256]
    surface,       \* the host DisplayState: bits per pixel, channel order, size
    fb,            \* the host framebuffer words the device wrote (first FbPixels)
    abgr,          \* draw_line32's composed colour of each of those pixels
    calls,         \* the host-surface calls of the last handler, in order
    op,            \* the last handler: its arguments, result, and storage range
    depth_skips,   \* refreshes so far that returned at the surface depth test
    steps          \* handlers run so far

dev == <<vram, width, height, dirty, size_changed, ctrl, dac, timing,
         xlut, clut1, clut2>>
host == <<surface, fb, abgr>>
vars == <<vram, width, height, dirty, size_changed, ctrl, dac, timing,
          xlut, clut1, clut2, surface, fb, abgr, calls, op, depth_skips, steps>>

(***************************************************************************)
(* Bounds of the model.                                                    *)
(***************************************************************************)
VramBits == 21       \* the video memory holds 2^VramBits bytes
FbPixels == 5        \* host framebuffer words kept in the state
MaxSteps == 2        \* handlers per run, all handlers enabled
GeomSteps == 4       \* handlers per run, timing and refresh handlers
RenderSteps == 4     \* handlers per run, palette and refresh handlers
DepthSteps == 5      \* handlers per run, surface depth and refresh handlers
LineSteps == 5       \* handlers per run, mode, geometry and refresh handlers
FrameSteps == 4      \* handlers per run, large frames and refresh handlers

(***************************************************************************)
(* Program constants.                                                      *)
(***************************************************************************)
MCR_PIXMODE_MASK == 48
MCR_PIXMODE_8 == 0
MCR_PIXMODE_16 == 32
MCR_PIXMODE_32 == 48
CG14_MONID_DEFAULT == 0
InitWidth == 640
InitHeight == 480

(***************************************************************************)
(* C operators on unsigned integers.                                       *)
(***************************************************************************)
\* a & b, a byte at a time where a byte of b is 0x00 or 0xFF, else a bit at a time
RECURSIVE BitAnd(_, _)
BitAnd(a, b) ==
    IF a = 0 \/ b = 0 THEN 0
    ELSE IF b % 256 = 0 THEN 256 * BitAnd(a \div 256, b \div 256)
    ELSE IF b % 256 = 255 THEN (a % 256) + 256 * BitAnd(a \div 256, b \div 256)
    ELSE (a % 2) * (b % 2) + 2 * BitAnd(a \div 2, b \div 2)

\* a | b, a byte at a time where a byte of either is 0x00, else a bit at a time
RECURSIVE BitOr(_, _)
BitOr(a, b) ==
    IF a = 0 THEN b
    ELSE IF b = 0 THEN a
    ELSE IF a % 256 = 0 THEN (b % 256) + 256 * BitOr(a \div 256, b \div 256)
    ELSE IF b % 256 = 0 THEN (a % 256) + 256 * BitOr(a \div 256, b \div 256)
    ELSE ((a % 2) + (b % 2) - (a % 2) * (b % 2)) + 2 * BitOr(a \div 2, b \div 2)

Shl(a, n) == a * (2 ^ n)
Shr(a, n) == a \div (2 ^ n)
U8(x) == x % 256
U16(x) == x % 65536

(***************************************************************************)
(* Zero-defaulted arrays.                                                  *)
(***************************************************************************)
Empty == [j \in {} |-> 0]
Get(f, i) == IF i \in DOMAIN f THEN f[i] ELSE 0
Put(f, i, v) ==
    IF v = 0 THEN [j \in (DOMAIN f) \ {i} |-> f[j]]
    ELSE [j \in (DOMAIN f) \cup {i} |-> IF j = i THEN v ELSE f[j]]

VramSize == 2 ^ VramBits
vram_amask == VramSize - 1

\* ldub_p / stb_p / ldl_be_p / stl_be_p on the video memory.  A byte outside
\* the buffer is not part of vram: a load of it may give any value (junk), a
\* store of it leaves vram alone.
InBuf(off) == off >= 0 /\ off < VramSize
ldub_p(mem, off, junk) == IF InBuf(off) THEN Get(mem, off) ELSE junk
stb_p(mem, off, val) == IF InBuf(off) THEN Put(mem, off, U8(val)) ELSE mem
ldl_be_p(mem, off, junk) ==
    Shl(ldub_p(mem, off, junk), 24) + Shl(ldub_p(mem, off + 1, junk), 16)
    + Shl(ldub_p(mem, off + 2, junk), 8) + ldub_p(mem, off + 3, junk)
stl_be_p(mem, off, val) ==
    stb_p(stb_p(stb_p(stb_p(mem, off, Shr(val, 24)), off + 1, Shr(val, 16)),
                off + 2, Shr(val, 8)), off + 3, val)

NoOp == [kind |-> "init", addr |-> 0, val |-> 0, ret |-> 0, lo |-> 0, hi |-> -1]
Handler(kind, addr, val, ret, lo, hi) ==
    [kind |-> kind, addr |-> addr, val |-> val, ret |-> ret, lo |-> lo, hi |-> hi]

(***************************************************************************)
(* cg14_init: the state after construction.  The CG14State is zeroed, the  *)
(* geometry is 640x480 and the host surface is resized to it.  The video   *)
(* memory comes from qemu_ram_alloc and the device never clears it: its    *)
(* first bytes are drawn from VramPatterns.  The host surface's depth and  *)
(* channel order are the host's choice.                                    *)
(***************************************************************************)
VramPatterns ==
    { Empty,
      [j \in 0..19 |-> CASE j = 0 -> 5   [] j = 1 -> 128 [] j = 2 -> 17
                         [] j = 3 -> 34  [] j = 4 -> 5   [] j = 5 -> 51
                         [] j = 6 -> 34  [] j = 7 -> 17  [] j = 8 -> 68
                         [] j = 9 -> 85  [] j = 10 -> 102 [] j = 11 -> 119
                         [] j = 16 -> 9  [] j = 17 -> 33 [] j = 18 -> 67
                         [] j = 19 -> 101 [] OTHER -> j] }

\* <<bits per pixel, blue first>> of the host surface
SurfaceFormats == {<<32, TRUE>>, <<32, FALSE>>, <<16, FALSE>>}

Init ==
    /\ vram \in VramPatterns
    /\ width = InitWidth
    /\ height = InitHeight
    /\ dirty = FALSE
    /\ size_changed = FALSE
    /\ ctrl = [mcr |-> 0, ppr |-> 0]
    /\ dac = [mode |-> 0, address |-> 0, rgb_seq |-> 0]
    /\ timing = [hblank_start |-> 0, hblank_clear |-> 0,
                 vblank_start |-> 0, vblank_clear |-> 0]
    /\ xlut = Empty
    /\ clut1 = Empty
    /\ clut2 = Empty
    /\ surface \in {[bpp |-> d[1], bgr |-> d[2], w |-> InitWidth, h |-> InitHeight] :
                      d \in SurfaceFormats}
    /\ fb = [p \in 0..(FbPixels - 1) |-> 0]
    /\ abgr = [p \in 0..(FbPixels - 1) |-> 0]
    /\ calls = << >>
    /\ op = NoOp
    /\ depth_skips = 0
    /\ steps = 0

\* What every handler does to the bookkeeping variables.
Ran(kind, addr, val, ret, lo, hi) ==
    /\ op' = Handler(kind, addr, val, ret, lo, hi)
    /\ steps' = steps + 1
    /\ UNCHANGED depth_skips

\* The same for the refresh: hi is the last source byte of the frame it
\* rendered (-1 when it rendered nothing), at_depth tells that it returned at
\* the surface depth test.
Refreshed(hi, at_depth) ==
    /\ op' = Handler("update_display", 0, 0, 0, 0, hi)
    /\ steps' = steps + 1
    /\ depth_skips' = IF at_depth THEN depth_skips + 1 ELSE depth_skips

(***************************************************************************)
(* The ADV7152 DAC.                                                        *)
(***************************************************************************)
\* C's !val: 1 when val is 0, else 0
LogicalNot(val) == IF val = 0 THEN 1 ELSE 0

ADV7152_write(s, reg, val) ==
    CASE reg = 0 -> [s EXCEPT !.address = U8(val), !.rgb_seq = 0]
      [] reg = 1 -> [s EXCEPT !.rgb_seq = s.rgb_seq + 1]
      [] reg = 2 -> s
      [] reg = 3 -> [s EXCEPT !.rgb_seq =
                                 IF BitAnd(LogicalNot(val), 1) # 0 THEN 0 ELSE s.rgb_seq,
                              !.mode = U8(val)]

(***************************************************************************)
(* Control registers, byte access.                                         *)
(***************************************************************************)
reg_readb_val(addr) ==
    LET a == BitAnd(addr, \Hffff) IN
    CASE a = 0 -> ctrl.mcr
      [] a = 1 -> ctrl.ppr
      [] a = 4 -> Shl(CG14_MONID_DEFAULT, 1)
      [] a = 6 -> 48
      [] OTHER -> 0

cg14_reg_readb(addr) ==
    /\ Ran("reg_readb", addr, 0, reg_readb_val(addr), 0, -1)
    /\ calls' = << >>
    /\ UNCHANGED <<dev, host>>

\* the entry stored without raising dirty
writeb_xlut_quiet(addr, val) ==
    <<dirty, Put(xlut, BitAnd(addr, \Hff), U8(val))>>

\* the xlut branch of cg14_reg_writeb: the new <<dirty, xlut>>
writeb_xlut(addr, val) ==
    LET i == BitAnd(addr, \Hff) IN
    IF Get(xlut, i) # val
    THEN <<TRUE, Put(xlut, i, U8(val))>>
    ELSE <<dirty, xlut>>

\* the packing-ratio register storing the whole byte
writeb_ctrl_unmasked(addr, val) ==
    LET a == BitAnd(addr, \Hffff) IN
    CASE a = 0 -> [ctrl EXCEPT !.mcr = U8(val)]
      [] a = 1 -> [ctrl EXCEPT !.ppr = U8(val)]
      [] OTHER -> ctrl

\* the register switch of cg14_reg_writeb: the new ctrl
writeb_ctrl(addr, val) ==
    LET a == BitAnd(addr, \Hffff) IN
    CASE a = 0 -> [ctrl EXCEPT !.mcr = U8(val)]
      [] a = 1 -> [ctrl EXCEPT !.ppr = U8(BitAnd(val, \HF0))]
      [] OTHER -> ctrl

cg14_reg_writeb(addr, val) ==
    /\ Ran("reg_writeb", addr, val, 0, 0, -1)
    /\ calls' = << >>
    /\ IF BitAnd(addr, \Hfcff) = \H2000
       THEN /\ dac' = ADV7152_write(dac, Shr(BitAnd(addr, \H300), 8), val)
            /\ UNCHANGED <<dirty, xlut, ctrl>>
       ELSE IF BitAnd(addr, \Hff00) = \H3000
       THEN /\ dirty' = writeb_xlut(addr, val)[1]
            /\ xlut' = writeb_xlut(addr, val)[2]
            /\ UNCHANGED <<dac, ctrl>>
       ELSE /\ dirty' = TRUE
            /\ ctrl' = writeb_ctrl(addr, val)
            /\ UNCHANGED <<dac, xlut>>
    /\ UNCHANGED <<vram, width, height, size_changed, timing, clut1, clut2, host>>

(***************************************************************************)
(* Control registers, halfword access: the timing registers.               *)
(***************************************************************************)
reg_readw_val(addr) ==
    LET a == BitAnd(addr, \Hffff) IN
    CASE a = \H18 -> timing.hblank_start
      [] a = \H1a -> timing.hblank_clear
      [] a = \H22 -> timing.vblank_start
      [] a = \H24 -> timing.vblank_clear
      [] OTHER -> 0

cg14_reg_readw(addr) ==
    /\ Ran("reg_readw", addr, 0, reg_readw_val(addr), 0, -1)
    /\ calls' = << >>
    /\ UNCHANGED <<dev, host>>

\* the switch of cg14_reg_writew: the new timing
writew_timing(addr, val) ==
    LET a == BitAnd(addr, \Hffff) IN
    CASE a = \H18 -> [timing EXCEPT !.hblank_start = U16(val)]
      [] a = \H1a -> [timing EXCEPT !.hblank_clear = U16(val)]
      [] a = \H22 -> [timing EXCEPT !.vblank_start = U16(val)]
      [] a = \H24 -> [timing EXCEPT !.vblank_clear = U16(val)]
      [] OTHER -> timing

\* every timing register raising the flag
writew_size_changed_all(addr) ==
    LET a == BitAnd(addr, \Hffff) IN
    IF a \in {\H18, \H1a, \H22, \H24} THEN TRUE ELSE size_changed

\* the switch of cg14_reg_writew: the new size_changed
writew_size_changed(addr) ==
    LET a == BitAnd(addr, \Hffff) IN
    IF a = \H1a \/ a = \H24 THEN TRUE ELSE size_changed

\* the geometry recomputed in the register write itself
cg14_reg_writew_resizing(addr, val) ==
    /\ Ran("reg_writew", addr, val, 0, 0, -1)
    /\ calls' = << >>
    /\ timing' = writew_timing(addr, val)
    /\ size_changed' = writew_size_changed(addr)
    /\ width' = 4 * (timing'.hblank_start - timing'.hblank_clear)
    /\ height' = timing'.vblank_start - timing'.vblank_clear
    /\ UNCHANGED <<vram, dirty, ctrl, dac, xlut, clut1, clut2, host>>

cg14_reg_writew(addr, val) ==
    /\ Ran("reg_writew", addr, val, 0, 0, -1)
    /\ calls' = << >>
    /\ timing' = writew_timing(addr, val)
    /\ size_changed' = writew_size_changed(addr)
    /\ UNCHANGED <<vram, width, height, dirty, ctrl, dac, xlut, clut1, clut2, host>>

(***************************************************************************)
(* Control registers, word access: the colour look-up tables.              *)
(***************************************************************************)
\* a byte index taken for the entry index
clut_index_byte(addr) == BitAnd(addr, \Hff)
clut_index(addr) == Shr(BitAnd(addr, \H3ff), 2)
clut_select(addr) == BitAnd(addr, \Hfc00)

reg_readl_val(addr) ==
    LET i == clut_index(addr) IN
    CASE clut_select(addr) = \H4000 -> Get(clut1, i)
      [] clut_select(addr) = \H5000 -> Get(clut2, i)
      [] OTHER -> 0

cg14_reg_readl(addr) ==
    /\ Ran("reg_readl", addr, 0, reg_readl_val(addr), 0, -1)
    /\ calls' = << >>
    /\ UNCHANGED <<dev, host>>

cg14_reg_writel(addr, val) ==
    LET i == clut_index(addr) IN
    /\ Ran("reg_writel", addr, val, 0, 0, -1)
    /\ calls' = << >>
    /\ dirty' = TRUE
    /\ clut1' = IF clut_select(addr) = \H4000 THEN Put(clut1, i, val) ELSE clut1
    /\ clut2' = IF clut_select(addr) = \H5000 THEN Put(clut2, i, val) ELSE clut2
    /\ UNCHANGED <<vram, width, height, size_changed, ctrl, dac, timing, xlut, host>>

(***************************************************************************)
(* Video memory: the four windows.                                         *)
(***************************************************************************)
vram_window(addr) == BitAnd(addr, \H3000000)

\* the storage offset each window derives from addr
vram_offset0(addr) == BitAnd(addr, vram_amask)
\* the phase taken from bit 22, as window 3 does
vram_offset2_bit22(addr) == BitAnd(Shl(addr, 1), vram_amask) + BitAnd(Shr(addr, 22), 1)
vram_offset2(addr) == BitAnd(Shl(addr, 1), vram_amask) + BitAnd(Shr(addr, 23), 1)
vram_offset3(addr) == BitAnd(Shl(addr, 2), vram_amask) + BitAnd(Shr(addr, 22), 3)

\* offset < 4 * s->width * s->height
in_visible(offset) == offset < 4 * width * height

\* Stand-ins for a byte loaded from outside the buffer.
JunkBytes == {0, 90}
Junk(lo, hi) == IF InBuf(lo) /\ InBuf(hi) THEN {0} ELSE JunkBytes

cg14_vram_readb(addr) ==
    LET w == vram_window(addr)
        offset == CASE w = \H2000000 -> vram_offset2(addr)
                    [] w = \H3000000 -> vram_offset3(addr)
                    [] OTHER -> vram_offset0(addr)
    IN
    /\ IF w = \H1000000
       THEN Ran("vram_readb", addr, 0, 0, 0, -1)
       ELSE \E junk \in Junk(offset, offset) :
              Ran("vram_readb", addr, 0, ldub_p(vram, offset, junk), offset, offset)
    /\ calls' = << >>
    /\ UNCHANGED <<dev, host>>

cg14_vram_writeb(addr, val) ==
    LET offset == vram_offset0(addr) IN
    /\ calls' = << >>
    /\ IF vram_window(addr) = 0
       THEN /\ Ran("vram_writeb", addr, val, 0, offset, offset)
            /\ vram' = stb_p(vram, offset, val)
            /\ dirty' = IF in_visible(offset) THEN TRUE ELSE dirty
       ELSE /\ Ran("vram_writeb", addr, val, 0, 0, -1)
            /\ UNCHANGED <<vram, dirty>>
    /\ UNCHANGED <<width, height, size_changed, ctrl, dac, timing,
                   xlut, clut1, clut2, host>>

cg14_vram_readw(addr) ==
    /\ Ran("vram_readw", addr, 0, 0, 0, -1)
    /\ calls' = << >>
    /\ UNCHANGED <<dev, host>>

cg14_vram_writew(addr, val) ==
    /\ Ran("vram_writew", addr, val, 0, 0, -1)
    /\ calls' = << >>
    /\ dirty' = TRUE
    /\ UNCHANGED <<vram, width, height, size_changed, ctrl, dac, timing,
                   xlut, clut1, clut2, host>>

cg14_vram_readl(addr) ==
    LET offset == vram_offset0(addr) IN
    /\ IF vram_window(addr) = 0
       THEN \E junk \in Junk(offset, offset + 3) :
              Ran("vram_readl", addr, 0, ldl_be_p(vram, offset, junk), offset, offset + 3)
       ELSE Ran("vram_readl", addr, 0, 0, 0, -1)
    /\ calls' = << >>
    /\ UNCHANGED <<dev, host>>

cg14_vram_writel(addr, val) ==
    LET offset == vram_offset0(addr) IN
    /\ calls' = << >>
    /\ IF vram_window(addr) = 0
       THEN /\ Ran("vram_writel", addr, val, 0, offset, offset + 3)
            /\ vram' = stl_be_p(vram, offset, val)
            /\ dirty' = IF in_visible(offset) THEN TRUE ELSE dirty
       ELSE /\ Ran("vram_writel", addr, val, 0, 0, -1)
            /\ UNCHANGED <<vram, dirty>>
    /\ UNCHANGED <<width, height, size_changed, ctrl, dac, timing,
                   xlut, clut1, clut2, host>>

(***************************************************************************)
(* Rendering.                                                              *)
(***************************************************************************)
\* the channels left where they are
bgr_to_rgb_noswap(bgr) == BitAnd(bgr, \HFFFFFF)

bgr_to_rgb(bgr) ==
    BitOr(BitOr(BitAnd(bgr, \H00FF00), Shl(BitAnd(bgr, \H0000FF), 16)),
          Shr(BitAnd(bgr, \HFF0000), 16))

\* every non-zero selector but 0x40 taken as direct colour
compose_direct(xlut_val, x, r, g, b) ==
    IF xlut_val = 64 THEN Get(clut1, x)
    ELSE BitOr(BitOr(Shl(b, 16), Shl(g, 8)), r)

\* the palette selection of cg14_draw_line32: the composed colour
compose(xlut_val, x, r, g, b) ==
    IF xlut_val = 0 THEN BitOr(BitOr(Shl(b, 16), Shl(g, 8)), r)
    ELSE IF xlut_val = 64 THEN Get(clut1, x)
    ELSE 0

\* the surface format of cg14_draw_line32: the word written to dst[i]
to_surface(c, is_bgr) == IF is_bgr THEN BitAnd(c, \HFFFFFF) ELSE bgr_to_rgb(c)

\* the 32-bit pixel read as index/blue, green, red, unused
cg14_draw_line32_bgrx(src, i, pixmode, junk) ==
    LET at == src + i * (pixmode \div 8)
        x == ldub_p(vram, at, junk)
        b == IF pixmode = 16 THEN ldub_p(vram, at + 1, junk) ELSE x
        xlut_val == IF pixmode = 8 THEN ctrl.ppr ELSE Get(xlut, x)
        g == IF pixmode # 32 THEN b ELSE ldub_p(vram, at + 1, junk)
        r == IF pixmode # 32 THEN b ELSE ldub_p(vram, at + 2, junk)
    IN compose(xlut_val, x, r, g, b)

\* cg14_draw_line32, pixel i of the line whose source starts at src: the
\* composed colour of that pixel
cg14_draw_line32(src, i, pixmode, junk) ==
    LET at == src + i * (pixmode \div 8)
        x == ldub_p(vram, at, junk)
        b == IF pixmode = 8 THEN x ELSE ldub_p(vram, at + 1, junk)
        xlut_val == IF pixmode = 8 THEN ctrl.ppr ELSE Get(xlut, x)
        g == IF pixmode # 32 THEN b ELSE ldub_p(vram, at + 2, junk)
        r == IF pixmode # 32 THEN b ELSE ldub_p(vram, at + 3, junk)
    IN compose(xlut_val, x, r, g, b)

\* the depth decoded from bit 5 alone
pixmode_of_bit5(mcr) == IF BitAnd(mcr, 32) # 0 THEN 16 ELSE 8

\* the switch on the mode-control register in cg14_update_display
pixmode_of(mcr) ==
    LET m == BitAnd(mcr, MCR_PIXMODE_MASK) IN
    CASE m = MCR_PIXMODE_32 -> 32
      [] m = MCR_PIXMODE_16 -> 16
      [] OTHER -> 8

\* the width in units of four pixels
new_width_unscaled == timing.hblank_start - timing.hblank_clear

\* the geometry the timing registers give
new_width == 4 * (timing.hblank_start - timing.hblank_clear)
new_height == timing.vblank_start - timing.vblank_clear

\* the test on the new height left out
resizes_any_height ==
    /\ size_changed
    /\ (new_width # width \/ new_height # height)
    /\ new_width > 0

\* the resize test of cg14_update_display
resizes ==
    /\ size_changed
    /\ (new_width # width \/ new_height # height)
    /\ new_width > 0
    /\ new_height > 0

\* the test on dirty left out
returns_clean_never(d1, w1, h1) == w1 = 0 \/ h1 = 0

\* if (!s->dirty || !s->width || !s->height) return;
returns_clean(d1, w1, h1) == ~d1 \/ w1 = 0 \/ h1 = 0

\* the depth test left out
unsupported_never(bpp) == FALSE

\* only 8-bit surfaces turned away
unsupported_8bit_only(bpp) == bpp = 8

\* if (ds_get_bits_per_pixel(s->ds) != 32) return;
unsupported(bpp) == bpp # 32

cg14_update_display ==
    LET w1 == IF resizes THEN new_width ELSE width
        h1 == IF resizes THEN new_height ELSE height
        d1 == IF resizes THEN TRUE ELSE dirty
        resize == IF resizes THEN << <<"resize", w1, h1>> >> ELSE << >>
        s1 == IF resizes THEN [surface EXCEPT !.w = w1, !.h = h1] ELSE surface
        pixmode == pixmode_of(ctrl.mcr)
        stride == s1.w            \* ds_get_linesize in 32-bit words
        last == h1 * w1 * (pixmode \div 8) - 1
    IN
    /\ size_changed' = FALSE
    /\ width' = w1
    /\ height' = h1
    /\ surface' = s1
    /\ IF returns_clean(d1, w1, h1)
       THEN /\ dirty' = d1
            /\ calls' = resize
            /\ Refreshed(-1, FALSE)
            /\ UNCHANGED <<fb, abgr>>
       ELSE IF unsupported(s1.bpp)
       THEN /\ dirty' = d1
            /\ calls' = resize
            /\ Refreshed(-1, TRUE)
            /\ UNCHANGED <<fb, abgr>>
       ELSE \E junk \in Junk(0, last) :
            /\ abgr' = [p \in DOMAIN abgr |->
                          IF p \div stride < h1 /\ p % stride < w1
                          THEN cg14_draw_line32((p \div stride) * w1 * (pixmode \div 8),
                                                p % stride, pixmode, junk)
                          ELSE abgr[p]]
            /\ fb' = [p \in DOMAIN fb |->
                          IF p \div stride < h1 /\ p % stride < w1
                          THEN to_surface(abgr'[p], s1.bgr)
                          ELSE fb[p]]
            /\ calls' = resize \o << <<"draw_lines", pixmode, h1>>,
                                     <<"dpy_update", 0, 0, w1, h1>> >>
            /\ dirty' = FALSE
            /\ Refreshed(last, FALSE)
    /\ UNCHANGED <<vram, ctrl, dac, timing, xlut, clut1, clut2>>

cg14_invalidate_display ==
    /\ Ran("invalidate_display", 0, 0, 0, 0, -1)
    /\ calls' = << >>
    /\ dirty' = TRUE
    /\ UNCHANGED <<vram, width, height, size_changed, ctrl, dac, timing,
                   xlut, clut1, clut2, host>>

(***************************************************************************)
(* The bus and the refresh timer: which handler runs next, and with what.  *)
(***************************************************************************)
ByteVals == {0, \H40, \H4F}
HalfVals == {2, 160}
WordVals == {\H7F112233}

RegByteAddrs == {\H0000, \H0001, \H0002, \H0004, \H2000, \H2100, \H2300, \H3005}
RegHalfAddrs == {\H0018, \H001a, \H0022, \H0024, \H001c, \H0030}
RegWordAddrs == {\H4014, \H43fc, \H53fc, \H6000}

\* window 0: the first byte, the first byte after the 640x480 frame
\* (4*640*480 = 0x12C000) and an address one buffer size up; a word that
\* starts 3 bytes before the buffer's end
VramByteAddrs == {\H0000000, \H012C000, VramSize,
                  \H1000000, \H2000000, \H2800000, \H3400001}
VramHalfAddrs == {\H0000000, \H2000000}
VramWordAddrs == {\H0000000, \H012C000, VramSize - 3, \H1000000}

Next ==
    \/ \E a \in RegByteAddrs : steps < MaxSteps /\ cg14_reg_readb(a)
    \/ \E a \in RegByteAddrs, v \in ByteVals : steps < MaxSteps /\ cg14_reg_writeb(a, v)
    \/ \E a \in RegHalfAddrs : steps < MaxSteps /\ cg14_reg_readw(a)
    \/ \E a \in RegHalfAddrs, v \in HalfVals : steps < MaxSteps /\ cg14_reg_writew(a, v)
    \/ \E a \in RegWordAddrs : steps < MaxSteps /\ cg14_reg_readl(a)
    \/ \E a \in RegWordAddrs, v \in WordVals : steps < MaxSteps /\ cg14_reg_writel(a, v)
    \/ \E a \in VramByteAddrs : steps < MaxSteps /\ cg14_vram_readb(a)
    \/ \E a \in VramByteAddrs : steps < MaxSteps /\ cg14_vram_writeb(a, \H4F)
    \/ \E a \in VramHalfAddrs : steps < MaxSteps /\ cg14_vram_readw(a)
    \/ \E a \in VramHalfAddrs, v \in HalfVals : steps < MaxSteps /\ cg14_vram_writew(a, v)
    \/ \E a \in VramWordAddrs : steps < MaxSteps /\ cg14_vram_readl(a)
    \/ \E a \in VramWordAddrs, v \in WordVals : steps < MaxSteps /\ cg14_vram_writel(a, v)
    \/ steps < MaxSteps /\ cg14_update_display
    \/ steps < MaxSteps /\ cg14_invalidate_display

Spec == Init /\ [][Next]_vars

\* Longer runs of the timing registers and the refresh.
HblankAddrs == {\H0018, \H001a}
HblankVals == {0, 1, 160}
VblankAddrs == {\H0022, \H0024}
VblankVals == {0, 2, 480}

NextGeom ==
    \/ \E a \in HblankAddrs, v \in HblankVals : steps < GeomSteps /\ cg14_reg_writew(a, v)
    \/ \E a \in VblankAddrs, v \in VblankVals : steps < GeomSteps /\ cg14_reg_writew(a, v)
    \/ steps < GeomSteps /\ cg14_update_display
    \/ steps < GeomSteps /\ cg14_invalidate_display

SpecGeom == Init /\ [][NextGeom]_vars

\* Longer runs of the mode, selector and palette registers and the refresh.
RenderByteAddrs == {\H0000, \H0001, \H3005, \H3011}
RenderByteVals == {1, \H20, \H30, \H40, \H4F}
RenderReadAddrs == {\H0000, \H0001}
RenderWordAddrs == {\H4014, \H4044}
RenderWordVals == {\H7F112233}

NextRender ==
    \/ \E a \in RenderByteAddrs, v \in RenderByteVals :
          steps < RenderSteps /\ cg14_reg_writeb(a, v)
    \/ \E a \in RenderWordAddrs, v \in RenderWordVals :
          steps < RenderSteps /\ cg14_reg_writel(a, v)
    \/ \E a \in RenderReadAddrs : steps < RenderSteps /\ cg14_reg_readb(a)
    \/ steps < RenderSteps /\ cg14_update_display

SpecRender == Init /\ [][NextRender]_vars

\* Longer runs of the mode register, a small geometry and the refresh.
LineTimings == {<<\H0018, 1>>, <<\H0018, 2>>, <<\H0022, 2>>, <<\H0024, 0>>}
LineModes == {\H10, \H20, \H30, \HEF}

NextLines ==
    \/ \E t \in LineTimings : steps < LineSteps /\ cg14_reg_writew(t[1], t[2])
    \/ \E v \in LineModes : steps < LineSteps /\ cg14_reg_writeb(\H0000, v)
    \/ steps < LineSteps /\ cg14_update_display

SpecLines == Init /\ [][NextLines]_vars

\* Runs of the timing registers with large frames, the mode register and the
\* refresh.
FrameTimings == {<<\H0018, 160>>, <<\H0018, 1024>>, <<\H0022, 480>>,
                 <<\H0022, 1024>>, <<\H001a, 0>>, <<\H0024, 0>>}
FrameModes == {\H00, \H20, \H30}

NextFrame ==
    \/ \E t \in FrameTimings : steps < FrameSteps /\ cg14_reg_writew(t[1], t[2])
    \/ \E v \in FrameModes : steps < FrameSteps /\ cg14_reg_writeb(\H0000, v)
    \/ steps < FrameSteps /\ cg14_update_display

SpecFrame == Init /\ [][NextFrame]_vars

\* The host giving the display another depth between two refreshes: the next
\* ds_get_bits_per_pixel answers bpp.
SurfaceDepths == {16, 32}

host_set_depth(bpp) ==
    /\ surface.bpp # bpp
    /\ surface' = [surface EXCEPT !.bpp = bpp]
    /\ Ran("set_depth", 0, bpp, 0, 0, -1)
    /\ calls' = << >>
    /\ UNCHANGED <<dev, fb, abgr>>

\* Longer runs of the refresh on a surface whose depth changes.
NextDepth ==
    \/ \E d \in SurfaceDepths : steps < DepthSteps /\ host_set_depth(d)
    \/ steps < DepthSteps /\ cg14_vram_writeb(0, \H4F)
    \/ steps < DepthSteps /\ cg14_invalidate_display
    \/ steps < DepthSteps /\ cg14_update_display

SpecDepth == Init /\ [][NextDepth]_vars

(***************************************************************************)
(* Properties.                                                             *)
(***************************************************************************)
InClut1(a) == a >= \H4000 /\ a <= \H43ff
InClut2(a) == a >= \H5000 /\ a <= \H53ff
EntryOf(a) == (a % 1024) \div 4

\* C1: in the CLUT1 range (0x4000-0x43ff) and the CLUT2 range (0x5000-0x53ff)
\* a word write of v at a word-aligned offset stores v in entry
\* (offset & 0x3ff) / 4 of the table the range selects, a word read returns
\* that entry, and an entry changes only by a word write to it: so a write of
\* v followed, with no write to the same entry between, by a read at the same
\* offset returns v.
C1_ClutRoundTrip ==
    [][ LET a == op'.addr
            k == op'.kind
        IN
        /\ (k = "reg_writel" /\ a % 4 = 0 /\ InClut1(a))
              => Get(clut1', EntryOf(a)) = op'.val
        /\ (k = "reg_writel" /\ a % 4 = 0 /\ InClut2(a))
              => Get(clut2', EntryOf(a)) = op'.val
        /\ (k = "reg_readl" /\ a % 4 = 0 /\ InClut1(a))
              => op'.ret = Get(clut1, EntryOf(a))
        /\ (k = "reg_readl" /\ a % 4 = 0 /\ InClut2(a))
              => op'.ret = Get(clut2, EntryOf(a))
        /\ \A j \in DOMAIN clut1 \cup DOMAIN clut1' \cup DOMAIN clut2 \cup DOMAIN clut2' :
              /\ Get(clut1', j) # Get(clut1, j)
                    => (k = "reg_writel" /\ InClut1(a) /\ EntryOf(a) = j)
              /\ Get(clut2', j) # Get(clut2, j)
                    => (k = "reg_writel" /\ InClut2(a) /\ EntryOf(a) = j)
      ]_vars

\* a read of the last CLUT1 entry returning the value written to it
C1_Witness ==
    /\ op.kind = "reg_readl"
    /\ op.addr = \H43fc
    /\ op.ret = \H7F112233
    /\ Get(clut1, 255) = \H7F112233

\* C2: a byte read in window 2 (a & 0x3000000 = 0x2000000) returns the
\* storage byte at ((a << 1) & mask) + ((a >> 23) & 1), and the two addresses
\* that differ from each other only in bit 23 map to the adjacent offsets 2k
\* and 2k + 1.
C2_Window2Read ==
    (op.kind = "vram_readb" /\ (op.addr \div 16777216) % 4 = 2) =>
        LET a == op.addr
            ph == (a \div 8388608) % 2
            a0 == a - ph * 8388608
            off == ((2 * a) % VramSize) + ph
        IN
        /\ op.lo = off /\ op.hi = off
        /\ off >= 0 /\ off < VramSize
        /\ op.ret = Get(vram, off)
        /\ vram_offset2(a0) % 2 = 0
        /\ vram_offset2(a0 + 8388608) = vram_offset2(a0) + 1
        /\ off = vram_offset2(a0) + ph

\* a window-2 read with bit 23 set returning the byte at the odd offset 1
C2_Witness ==
    /\ op.kind = "vram_readb"
    /\ op.addr = \H2800000
    /\ op.lo = 1
    /\ op.ret = 128

\* C3: a halfword write to hblank_clear (0x001a) or vblank_clear (0x0024)
\* sets size_changed; a halfword write anywhere else leaves size_changed as it
\* was; the four timing registers store the low 16 bits of the value and a
\* write to any other halfword offset stores nothing.
C3_WritewSizeChanged ==
    [][ op'.kind = "reg_writew" =>
        LET a == op'.addr % 65536
            v == op'.val % 65536
        IN
        /\ (a \in {\H1a, \H24}) => size_changed'
        /\ (a \notin {\H1a, \H24}) => (size_changed' = size_changed)
        /\ timing'.hblank_start = IF a = \H18 THEN v ELSE timing.hblank_start
        /\ timing'.hblank_clear = IF a = \H1a THEN v ELSE timing.hblank_clear
        /\ timing'.vblank_start = IF a = \H22 THEN v ELSE timing.vblank_start
        /\ timing'.vblank_clear = IF a = \H24 THEN v ELSE timing.vblank_clear
      ]_vars

\* vblank_start written after hblank_start, size_changed still clear
C3_Witness ==
    /\ op.kind = "reg_writew"
    /\ op.addr = \H0022
    /\ timing.vblank_start = 2
    /\ timing.hblank_start = 160
    /\ ~size_changed

IsRefresh(o) == o.kind = "update_display"
Rendered(o) == o.kind = "update_display" /\ o.hi >= 0
TimingWidth(t) == 4 * (t.hblank_start - t.hblank_clear)
TimingHeight(t) == t.vblank_start - t.vblank_clear

\* C4 as stated: whenever the timing registers give W = 4*(hblank_start -
\* hblank_clear) > 0 and H = vblank_start - vblank_clear > 0, a refresh leaves
\* width = W, height = H and size_changed clear.
C4_AnyWriteOrder ==
    [][ (IsRefresh(op') /\ TimingWidth(timing) > 0 /\ TimingHeight(timing) > 0)
          => /\ width' = TimingWidth(timing)
             /\ height' = TimingHeight(timing)
             /\ ~size_changed'
      ]_vars

\* C4 as amended: a refresh that starts with size_changed set (a write to
\* hblank_clear or vblank_clear since the refresh before) and timing
\* registers giving W > 0 and H > 0 leaves width = W and height = H; a refresh
\* that starts with size_changed clear leaves width and height as they were;
\* every refresh leaves size_changed clear.
C4_RefreshAdoptsGeometry ==
    [][ IsRefresh(op') =>
          /\ ~size_changed'
          /\ (size_changed /\ TimingWidth(timing) > 0 /\ TimingHeight(timing) > 0)
                => (width' = TimingWidth(timing) /\ height' = TimingHeight(timing))
          /\ ~size_changed => (width' = width /\ height' = height)
      ]_vars

\* a refresh that adopted 4x2 from hblank 1-0 and vblank 2-0
C4_Witness ==
    /\ IsRefresh(op)
    /\ timing.hblank_start = 1 /\ timing.hblank_clear = 0
    /\ timing.vblank_start = 2 /\ timing.vblank_clear = 0
    /\ width = 4 /\ height = 2
    /\ ~size_changed
    /\ calls # << >> /\ calls[1] = <<"resize", 4, 2>>

\* The source bytes and the selector of framebuffer pixel p, as the rendering
\* rule states them: 1, 2 or 4 bytes per pixel from offset p * bytes.
PixBits == CASE (ctrl.mcr \div 16) % 4 = 3 -> 32
             [] (ctrl.mcr \div 16) % 4 = 2 -> 16
             [] OTHER -> 8
PixIndex(p) == Get(vram, p * (PixBits \div 8))
PixSelector(p) == IF PixBits = 8 THEN ctrl.ppr ELSE Get(xlut, PixIndex(p))
PixBlue(p) == IF PixBits = 8 THEN PixIndex(p) ELSE Get(vram, p * (PixBits \div 8) + 1)
PixGreen(p) == IF PixBits = 32 THEN Get(vram, p * 4 + 2) ELSE PixBlue(p)
PixRed(p) == IF PixBits = 32 THEN Get(vram, p * 4 + 3) ELSE PixBlue(p)

\* C5: every pixel a refresh renders has the composed colour
\* (blue << 16) | (green << 8) | red when its selector is 0 (green = red = blue
\* in 8- and 16-bit mode), clut1[index byte] when its selector is 0x40, and 0
\* for every other selector; the selector is the packing-ratio register in
\* 8-bit mode and xlut[index byte] in 16- and 32-bit mode.
C5_PixelComposition ==
    Rendered(op) =>
        \A p \in DOMAIN abgr :
            p < width * height =>
                abgr[p] = CASE PixSelector(p) = 0 ->
                                 PixBlue(p) * 65536 + PixGreen(p) * 256 + PixRed(p)
                            [] PixSelector(p) = 64 -> Get(clut1, PixIndex(p))
                            [] OTHER -> 0

\* 8-bit mode, selector 0x40: pixel 0 (index 5) shows clut1[5], pixel 1
\* (index 0x80) shows clut1[0x80]
C5_Witness ==
    /\ Rendered(op)
    /\ PixBits = 8 /\ ctrl.ppr = 64
    /\ PixIndex(0) = 5 /\ Get(clut1, 5) = \H7F112233
    /\ abgr[0] = \H7F112233
    /\ abgr[1] = 0

\* C6: the word written to the host surface is the composed colour's low 24
\* bits when the surface is blue-first, and otherwise those 24 bits with the
\* red (bits 0-7) and blue (bits 16-23) bytes exchanged and green unchanged;
\* its top byte is 0.
C6_SurfaceWord ==
    Rendered(op) =>
        \A p \in DOMAIN fb :
            p < width * height =>
                LET c == abgr[p]
                    red == c % 256
                    green == (c \div 256) % 256
                    blue == (c \div 65536) % 256
                IN
                /\ fb[p] = IF surface.bgr
                           THEN blue * 65536 + green * 256 + red
                           ELSE red * 65536 + green * 256 + blue
                /\ fb[p] < 16777216

\* 32-bit mode on a surface that is not blue-first: r=0x11, g=0x22, b=0x33
\* composed as 0x332211 is written as 0x112233
C6_Witness ==
    /\ Rendered(op)
    /\ ~surface.bgr
    /\ PixBits = 32
    /\ PixRed(1) = \H11 /\ PixGreen(1) = \H22 /\ PixBlue(1) = \H33
    /\ abgr[1] = \H332211
    /\ fb[1] = \H112233

IsVramWrite0(o) ==
    /\ o.kind \in {"vram_writeb", "vram_writel"}
    /\ (o.addr \div 16777216) % 4 = 0
ValueByte(o, k) ==
    IF o.kind = "vram_writeb" THEN o.val % 256
    ELSE (o.val \div (256 ^ (3 - k))) % 256

\* C7: a byte or word write to window 0 puts the value into storage at offset
\* addr & mask (a word's four bytes most significant first), sets dirty if
\* that offset is below 4 * width * height and leaves dirty as it was if not.
C7_Window0Write ==
    [][ IsVramWrite0(op') =>
        LET off == op'.addr % VramSize
            n == IF op'.kind = "vram_writeb" THEN 1 ELSE 4
        IN
        /\ \A k \in 0..(n - 1) :
              /\ off + k < VramSize
              /\ Get(vram', off + k) = ValueByte(op', k)
        /\ off < 4 * width * height => dirty'
        /\ off >= 4 * width * height => (dirty' = dirty)
      ]_vars

\* C8: the device is created 640x480, and no control-register write and no
\* video-memory write changes width or height: only the refresh does.
C8_OnlyRefreshResizes ==
    /\ (width = 640 /\ height = 480)
    /\ [][ ~IsRefresh(op') => (width' = width /\ height' = height) ]_vars

\* hblank_clear written so that the timing registers give a width of 632,
\* size_changed raised, width still 640
C8_Witness ==
    /\ op.kind = "reg_writew" /\ op.addr = \H001a
    /\ size_changed
    /\ TimingWidth(timing) = 632
    /\ width = 640 /\ height = 480

\* C9: every byte or word access to the video-memory region touches only
\* storage offsets in [0, size): the derived offset and, for a word access,
\* the three bytes after it.
C9_AccessInBuffer ==
    (op.kind \in {"vram_readb", "vram_writeb", "vram_readl", "vram_writel"}
       /\ op.lo <= op.hi)
        => (op.lo >= 0 /\ op.hi < VramSize)

IsRead(o) == o.kind \in {"reg_readb", "reg_readw", "reg_readl",
                         "vram_readb", "vram_readw", "vram_readl"}

\* C10: a step that changes the value of an xlut, clut1 or clut2 entry leaves
\* dirty set, and a read of any size from either region changes nothing of
\* the device or of the host surface.
C10_TableWritesDirty ==
    [][ /\ \A j \in DOMAIN xlut \cup DOMAIN xlut' :
              Get(xlut', j) # Get(xlut, j) => dirty'
        /\ \A j \in DOMAIN clut1 \cup DOMAIN clut1' :
              Get(clut1', j) # Get(clut1, j) => dirty'
        /\ \A j \in DOMAIN clut2 \cup DOMAIN clut2' :
              Get(clut2', j) # Get(clut2, j) => dirty'
        /\ IsRead(op') => (dev' = dev /\ host' = host /\ calls' = << >>)
      ]_vars

\* a byte write that changed xlut[5] and so raised dirty, no other register
\* having been written
C10_Witness ==
    /\ op.kind = "reg_writeb" /\ op.addr = \H3005
    /\ Get(xlut, 5) = \H4F
    /\ dirty
    /\ clut1 = Empty /\ clut2 = Empty /\ ctrl.mcr = 0 /\ ctrl.ppr = 0

\* the geometry change a refresh makes: size_changed set and the timing
\* registers giving a positive geometry other than the current one
Adopts ==
    /\ size_changed
    /\ (TimingWidth(timing) # width \/ TimingHeight(timing) # height)
    /\ TimingWidth(timing) > 0
    /\ TimingHeight(timing) > 0

\* C11 as stated: a refresh on a host surface whose depth is not 32 bits makes
\* no resize and no present call, writes no pixel and leaves width, height and
\* dirty as they were, whatever size_changed and the timing registers hold.
C11_RefusedEntirely ==
    [][ (IsRefresh(op') /\ surface.bpp # 32)
          => /\ calls' = << >>
             /\ fb' = fb
             /\ width' = width /\ height' = height
             /\ dirty' = dirty
      ]_vars

\* C11 as amended: a refresh on a host surface whose depth is not 32 bits
\* renders nothing (no present call, no pixel written) and clears
\* size_changed; it makes no resize call and leaves width, height and dirty as
\* they were unless size_changed is set and the timing registers give a
\* positive geometry other than the current one, and then it makes exactly the
\* resize call, adopts that geometry and sets dirty.
C11_RefusedRender ==
    [][ (IsRefresh(op') /\ surface.bpp # 32)
          => /\ fb' = fb /\ abgr' = abgr
             /\ ~size_changed'
             /\ ~Rendered(op')
             /\ ~Adopts => /\ calls' = << >>
                           /\ width' = width /\ height' = height
                           /\ dirty' = dirty
             /\ Adopts => /\ calls' = << <<"resize", TimingWidth(timing),
                                                     TimingHeight(timing)>> >>
                          /\ width' = TimingWidth(timing)
                          /\ height' = TimingHeight(timing)
                          /\ dirty'
      ]_vars

\* a refresh on a 16-bit surface that resized to 4x2, rendered nothing and
\* left dirty set
C11_Witness ==
    /\ IsRefresh(op) /\ ~Rendered(op)
    /\ surface.bpp = 16
    /\ depth_skips = 1
    /\ width = 4 /\ height = 2
    /\ calls = << <<"resize", 4, 2>> >>
    /\ dirty
    /\ \A p \in DOMAIN fb : fb[p] = 0

\* the control-region offsets no case of the handlers of that size names
UnknownByte(a) ==
    /\ a % 65536 \notin {0, 1, 4, 6, 7}
    /\ (a % 65536) \div 1024 # 8          \* the DAC, 0x2000-0x23ff
    /\ (a % 65536) \div 256 # 48          \* xlut, 0x3000-0x30ff
UnknownHalf(a) ==
    a % 65536 \notin {\H18, \H1a, \H1c, \H1e, \H20, \H22, \H24, \H26, \H28}
UnknownWord(a) == ~InClut1(a % 65536) /\ ~InClut2(a % 65536)
UnknownReg(o) ==
    \/ o.kind \in {"reg_readb", "reg_writeb"} /\ UnknownByte(o.addr)
    \/ o.kind \in {"reg_readw", "reg_writew"} /\ UnknownHalf(o.addr)
    \/ o.kind \in {"reg_readl", "reg_writel"} /\ UnknownWord(o.addr)

\* C12: at a control-region offset that matches no register and no table, a
\* read of any size returns 0 and a write of any size leaves the whole device
\* state (registers, tables, timing, DAC, dirty, size_changed, width, height)
\* as it was.
C12_UnknownOffsetNoOp ==
    [][ UnknownReg(op') =>
          /\ op'.kind \in {"reg_readb", "reg_readw", "reg_readl"} => op'.ret = 0
          /\ dev' = dev
      ]_vars

\* C13: a refresh that starts with size_changed set and timing registers
\* giving a width or a height <= 0 makes no resize call, keeps width and
\* height and clears size_changed; width > 0 and height > 0 in every state.
C13_DegenerateGeometry ==
    /\ [](width > 0 /\ height > 0)
    /\ [][ (IsRefresh(op') /\ size_changed
              /\ (TimingWidth(timing) <= 0 \/ TimingHeight(timing) <= 0))
             => /\ \A k \in 1..Len(calls') : calls'[k][1] # "resize"
                /\ width' = width /\ height' = height
                /\ ~size_changed'
         ]_vars

\* hblank_clear = 1 written over hblank_start = 0 (a width of -4), then a
\* refresh: 640x480 kept, size_changed cleared, no call made
C13_Witness ==
    /\ IsRefresh(op) /\ steps = 2
    /\ timing.hblank_start = 0 /\ timing.hblank_clear = 1
    /\ TimingWidth(timing) = -4
    /\ width = 640 /\ height = 480
    /\ ~size_changed
    /\ calls = << >>

\* C14: a refresh on a 32-bit surface renders exactly when dirty is set on
\* entry or the refresh changes the geometry.  When it renders, the resize
\* call (if any) comes first, then height scan lines are drawn, then the one
\* present call for (0, 0, width, height), and dirty is clear on return; when
\* it does not, it makes no call and writes no pixel.
C14_RenderIffDirty ==
    [][ (IsRefresh(op') /\ surface.bpp = 32) =>
          LET resize == IF Adopts THEN << <<"resize", width', height'>> >> ELSE << >>
              n == Len(resize)
          IN
          IF dirty \/ Adopts
          THEN /\ Rendered(op')
               /\ Len(calls') = n + 2
               /\ SubSeq(calls', 1, n) = resize
               /\ calls'[n + 1][1] = "draw_lines"
               /\ calls'[n + 1][3] = height'
               /\ calls'[n + 2] = <<"dpy_update", 0, 0, width', height'>>
               /\ ~dirty'
          ELSE /\ ~Rendered(op')
               /\ calls' = << >>
               /\ fb' = fb /\ abgr' = abgr
               /\ ~dirty'
      ]_vars

\* a refresh on a 32-bit surface that resized to 4x2, then drew 2 lines, then
\* presented (0, 0, 4, 2)
C14_Witness ==
    /\ Rendered(op)
    /\ surface.bpp = 32
    /\ width = 4 /\ height = 2
    /\ calls = << <<"resize", 4, 2>>, <<"draw_lines", 8, 2>>,
                  <<"dpy_update", 0, 0, 4, 2>> >>
    /\ ~dirty

\* C15: a refresh that finds dirty set and a surface that is not 32-bit
\* leaves dirty set and renders nothing; dirty is cleared by nothing but a
\* refresh that renders and presents on a 32-bit surface; and a refresh that
\* finds dirty set and a 32-bit surface renders, presents and clears dirty.
\* So a repaint pending across skipped refreshes is made by the first refresh
\* that finds 32 bits.
C15_PendingRepaintKept ==
    [][ /\ (IsRefresh(op') /\ dirty /\ surface.bpp # 32)
              => (dirty' /\ ~Rendered(op') /\ depth_skips' = depth_skips + 1)
        /\ (dirty /\ ~dirty')
              => /\ Rendered(op') /\ surface.bpp = 32
                 /\ calls'[Len(calls')] = <<"dpy_update", 0, 0, width', height'>>
        /\ (IsRefresh(op') /\ dirty /\ surface.bpp = 32)
              => /\ Rendered(op') /\ ~dirty'
                 /\ calls'[Len(calls')] = <<"dpy_update", 0, 0, width', height'>>
      ]_vars

\* invalidate, a refresh skipped on the 16-bit surface, the surface turned
\* 32-bit, and the refresh that then renders, presents and clears dirty
C15_Witness ==
    /\ Rendered(op) /\ steps = 4
    /\ depth_skips = 1
    /\ surface.bpp = 32
    /\ calls = << <<"draw_lines", 8, 480>>, <<"dpy_update", 0, 0, 640, 480>> >>
    /\ ~dirty

\* the DAC sub-register a byte write at control offset a goes to, -1 if none
DacReg(a) ==
    IF a % 65536 \in {\H2000, \H2100, \H2200, \H2300}
    THEN ((a % 65536) \div 256) % 4
    ELSE -1

\* C16: a byte write to DAC sub-register 0 latches the value as the address
\* and sets the sequence counter to 0; a write to sub-register 1 adds exactly
\* 1 to the counter; a write of v to sub-register 3 records v as the mode and,
\* when bit 0 of v is clear, leaves the counter at 0.
C16_DacProtocol ==
    [][ op'.kind = "reg_writeb" =>
          /\ DacReg(op'.addr) = 0
                => (dac'.address = op'.val % 256 /\ dac'.rgb_seq = 0)
          /\ DacReg(op'.addr) = 1 => dac'.rgb_seq = dac.rgb_seq + 1
          /\ DacReg(op'.addr) = 3
                => /\ dac'.mode = op'.val % 256
                   /\ op'.val % 2 = 0 => dac'.rgb_seq = 0
      ]_vars

\* the pixel depth bits 5:4 of a mode-control value select
DepthOf(m) ==
    CASE (m \div 16) % 4 = 0 -> 8
      [] (m \div 16) % 4 = 1 -> 8
      [] (m \div 16) % 4 = 2 -> 16
      [] (m \div 16) % 4 = 3 -> 32

\* the direct colour of the pixel whose depth/8 source bytes start at off
DirectAt(off, depth) ==
    CASE depth = 8 -> Get(vram, off) * 65793
      [] depth = 16 -> Get(vram, off + 1) * 65793
      [] depth = 32 -> Get(vram, off + 1) * 65536 + Get(vram, off + 2) * 256
                         + Get(vram, off + 3)

\* C17: the render depth is decoded from bits 5:4 of the mode-control
\* register alone (00 -> 8, 10 -> 16, 11 -> 32, 01 -> 8), for each of its 256
\* values; a refresh that renders draws at that depth, consumes depth/8 source
\* bytes for each pixel (width * height * depth/8 in all), and takes pixel i
\* of scan line h from offset h * width * (depth/8) + i * (depth/8).
C17_DepthAndLineOffsets ==
    /\ \A m \in 0..255 : pixmode_of(m) = DepthOf(m)
    /\ [](Rendered(op) =>
            LET depth == DepthOf(ctrl.mcr)
                bytes == depth \div 8
            IN
            /\ calls[Len(calls) - 1] = <<"draw_lines", depth, height>>
            /\ op.hi + 1 = width * height * bytes
            /\ \A p \in DOMAIN abgr :
                  LET h == p \div width
                      i == p % width
                  IN h < height =>
                       abgr[p] = DirectAt(h * width * bytes + i * bytes, depth))

\* 4x2 in 16-bit mode (mode-control 0xEF): the first pixel of the second line
\* comes from the two bytes at offset 8
C17_Witness ==
    /\ Rendered(op)
    /\ ctrl.mcr = \HEF
    /\ width = 4 /\ height = 2
    /\ op.hi = 15
    /\ Get(vram, 9) = 85
    /\ abgr[4] = 85 * 65793
    /\ abgr[0] = 128 * 65793

\* byte k of the four source bytes of pixel p in 32-bit mode
Byte32(p, k) == Get(vram, 4 * p + k)

\* C18 as stated: in 32-bit mode the first of a pixel's four bytes is the
\* xlut index and the blue component, the second is green, the third is red
\* and the fourth is not used: with xlut[first byte] = 0 the composed colour is
\* (byte0 << 16) | (byte1 << 8) | byte2.
C18_IndexIsBlue ==
    (Rendered(op) /\ PixBits = 32) =>
        \A p \in DOMAIN abgr :
            (p < width * height /\ Get(xlut, Byte32(p, 0)) = 0) =>
                abgr[p] = Byte32(p, 0) * 65536 + Byte32(p, 1) * 256 + Byte32(p, 2)

\* C18 as amended: in 32-bit mode the first of a pixel's four bytes is the
\* index (into xlut, and into clut1 when xlut gives 0x40) and no colour
\* component, the second is blue, the third is green and the fourth is red:
\* with xlut[first byte] = 0 the composed colour is
\* (byte1 << 16) | (byte2 << 8) | byte3.
C18_IndexBlueGreenRed ==
    (Rendered(op) /\ PixBits = 32) =>
        \A p \in DOMAIN abgr :
            p < width * height =>
                /\ Get(xlut, Byte32(p, 0)) = 0 =>
                      abgr[p] = Byte32(p, 1) * 65536 + Byte32(p, 2) * 256 + Byte32(p, 3)
                /\ Get(xlut, Byte32(p, 0)) = 64 =>
                      abgr[p] = Get(clut1, Byte32(p, 0))

\* the four bytes 05 80 11 22 with xlut[5] = 0 composed as 0x801122
C18_Witness ==
    /\ Rendered(op) /\ PixBits = 32
    /\ Byte32(0, 0) = 5 /\ Byte32(0, 1) = 128
    /\ Byte32(0, 2) = 17 /\ Byte32(0, 3) = 34
    /\ Get(xlut, 5) = 0
    /\ abgr[0] = \H801122

\* the video-memory window (0..3) of an address
WindowOf(a) == (a \div 16777216) % 4

\* the video-memory accesses no handler implements
UnimplementedVram(o) ==
    \/ o.kind \in {"vram_readw", "vram_writew"}
    \/ o.kind = "vram_readb" /\ WindowOf(o.addr) = 1
    \/ o.kind \in {"vram_writeb", "vram_readl", "vram_writel"} /\ WindowOf(o.addr) # 0

\* C19: a halfword read in any window, a byte read in window 1 and a word
\* read in windows 1-3 return 0; a halfword write in any window and a byte or
\* word write in windows 1-3 leave video memory, dirty and the rest of the
\* device state as they were.
C19_UnimplementedNoOp ==
    [][ UnimplementedVram(op') =>
          /\ op'.kind \in {"vram_readb", "vram_readw", "vram_readl"} => op'.ret = 0
          /\ dev' = dev
      ]_vars

\* C20: a byte write of v to the packing-ratio register (0x0001) stores
\* v & 0xF0 and a byte read of it returns what is stored, so the register's
\* low nibble is 0 in every state; a byte write of v to the mode-control
\* register (0x0000) stores v's low 8 bits and a byte read returns them; and
\* in 8-bit mode a pixel is direct colour when the packing-ratio register
\* holds 0 (any v in 0x00..0x0F written) and clut1[index] when it holds 0x40
\* (any v in 0x40..0x4F written).
C20_PackingRatioMasked ==
    /\ [](ctrl.ppr % 16 = 0)
    /\ [][ /\ (op'.kind = "reg_writeb" /\ op'.addr % 65536 = 1)
                 => ctrl'.ppr = (op'.val % 256) - (op'.val % 16)
           /\ (op'.kind = "reg_writeb" /\ op'.addr % 65536 = 0)
                 => ctrl'.mcr = op'.val % 256
           /\ (op'.kind = "reg_readb" /\ op'.addr % 65536 = 1)
                 => op'.ret = ctrl.ppr
           /\ (op'.kind = "reg_readb" /\ op'.addr % 65536 = 0)
                 => op'.ret = ctrl.mcr
         ]_vars
    /\ []((Rendered(op) /\ PixBits = 8) =>
            \A p \in DOMAIN abgr :
                p < width * height =>
                    /\ ctrl.ppr = 0 => abgr[p] = Get(vram, p) * 65793
                    /\ ctrl.ppr = 64 => abgr[p] = Get(clut1, Get(vram, p)))

\* 0x4F written to the packing-ratio register, 0x40 stored
C20_Witness ==
    /\ op.kind = "reg_writeb" /\ op.addr = 1 /\ op.val = \H4F
    /\ ctrl.ppr = \H40

\* C21: every source byte a rendering refresh reads lies inside the video
\* memory: the frame's width * height * (depth/8) bytes, read from offset 0
\* on, end before the buffer's size, for every geometry and pixel mode the
\* timing and mode registers can set.
C21_RenderInBuffer ==
    Rendered(op) =>
        /\ op.lo >= 0 /\ op.hi < VramSize
        /\ width * height * (DepthOf(ctrl.mcr) \div 8) <= VramSize

====
